---------------------------- MODULE Spec2Model ----------------------------
(***************************************************************************)
(* Bee-activity heatmap backend: the /api/bee-map handler of the basic     *)
(* server (src/server.js) and of the extended server                       *)
(* (src/unnamed/part_000), with the upstream services (vegetation,         *)
(* temperature, observations) as the environment.                          *)
(*                                                                         *)
(* Number representation.                                                  *)
(*   coordinates : integers, unit 0.0001 degree  (0.5 degree = 5000)       *)
(*   temperatures: integers, unit 0.1 degree C   (25 C = 250)              *)
(*   scores      : integers, unit 0.0001         (1.0 = 10000)             *)
(*   durations   : integers, unit 1 ms                                     *)
(* JavaScript values that are not numbers (null, undefined, NaN) are       *)
(* records with a kind field, so that a missing value is never confused    *)
(* with a number.                                                          *)
(***************************************************************************)
EXTENDS Integers, Sequences, FiniteSets

(***************************************************************************)
(* Bounds of the model.                                                    *)
(***************************************************************************)
\* grid resolution per axis (15 in the source; the grid has gridSize^2 points)
gridSize == 2
\* the largest number of temperature answers per request that are not the
\* nominal value (a failed call, or an unusual value)
MaxAnomalies == 1

(***************************************************************************)
(* Program constants.                                                      *)
(***************************************************************************)
buffer == 5000
DELAY_MS == 1500
OsmTimeout == 25000
TempTimeout == 15000
GlobeTimeout == 20000
FallbackTemp == 250
GlobeEps == 10

\* one step of the clock: a third of the inter-request delay
Tick == DELAY_MS \div 3

(***************************************************************************)
(* JavaScript values.                                                      *)
(***************************************************************************)
Num(n) == [kind |-> "num", v |-> n]
Null == [kind |-> "null", v |-> 0]
Undefined == [kind |-> "undefined", v |-> 0]
NaN == [kind |-> "nan", v |-> 0]

\* x || y on a temperature: 0, null, undefined and NaN are falsy
Truthy(t) == t.kind = "num" /\ t.v # 0

\* the product of two scores (unit 0.0001)
Mul(a, b) == (a * b) \div 10000

\* parseFloat(x.toFixed(3)) on a score: rounded to a multiple of 0.001
ToFixed3(x) == ((x + 5) \div 10) * 10

(***************************************************************************)
(* calcularPontuacaoAbelha, src/server.js (basic server).  The month is    *)
(* what new Date().getMonth() returns when the function runs.              *)
(***************************************************************************)
seasonalityScore(latitude, currentMonth) ==
    IF latitude > 0
    THEN IF currentMonth >= 2 /\ currentMonth <= 7 THEN 10000
         ELSE IF currentMonth = 8 \/ currentMonth = 9 THEN 5000
         ELSE 1000
    ELSE IF currentMonth >= 8 \/ currentMonth <= 1 THEN 10000
         ELSE IF currentMonth = 2 \/ currentMonth = 3 THEN 5000
         ELSE 1000

\* mutant of tempScore: the half-score band includes its end points
tempScore_wide(t) ==
    IF t >= 200 /\ t <= 320 THEN 10000
    ELSE IF t >= 150 /\ t <= 380 THEN 5000
    ELSE 0

tempScore(t) ==
    IF t >= 200 /\ t <= 320 THEN 10000
    ELSE IF t > 150 /\ t < 380 THEN 5000
    ELSE 0

vegetationScore(hasVegetation) == IF hasVegetation THEN 10000 ELSE 500

calcularPontuacaoAbelha(temperature, hasVegetation, latitude, currentMonth) ==
    IF temperature.kind = "null" \/ temperature.kind = "undefined" THEN 0
    ELSE Mul(Mul(vegetationScore(hasVegetation), tempScore(temperature.v)),
             seasonalityScore(latitude, currentMonth))

(***************************************************************************)
(* calcularPontuacaoAbelha, src/unnamed/part_000 (extended server).        *)
(***************************************************************************)
seasonalityScoreExt(latitude, currentMonth) ==
    LET isNorthernHemisphere == latitude > 0
    IN  IF isNorthernHemisphere
        THEN IF currentMonth >= 2 /\ currentMonth <= 7 THEN 10000
             ELSE IF currentMonth = 8 \/ currentMonth = 9 THEN 5000
             ELSE 1000
        ELSE IF currentMonth >= 8 \/ currentMonth <= 1 THEN 10000
             ELSE IF currentMonth = 2 \/ currentMonth = 3 THEN 5000
             ELSE 1000

tempScoreExt(t) ==
    IF t >= 200 /\ t <= 320 THEN 10000
    ELSE IF t > 150 /\ t < 380 THEN 5000
    ELSE 0

calcularPontuacaoAbelhaExt(temperature, hasVegetation, latitude, currentMonth) ==
    IF temperature.kind \in {"null", "undefined"} THEN 0
    ELSE Mul(Mul(IF hasVegetation THEN 10000 ELSE 500, tempScoreExt(temperature.v)),
             seasonalityScoreExt(latitude, currentMonth))


(***************************************************************************)
(* Requests, query strings and parseFloat.                                 *)
(***************************************************************************)
\* the requests the server may be handling at once: two, the smallest number
\* that lets handlers overlap
Reqs == {1, 2}

\* values of req.query.lat and req.query.lon a client may send
LatStrings == {"abc", "0.25"}
LonStrings == {"", "-3"}

\* parseFloat: a number when the string starts with one, NaN otherwise
parseFloat(s) ==
    CASE s = "0.25" -> Num(2500)
      [] s = "-3"   -> Num(-30000)
      [] OTHER      -> NaN

isNaN(x) == x.kind = "nan"

(***************************************************************************)
(* Bounding box and grid (identical in both servers).                      *)
(***************************************************************************)
BBox(lat, lon) ==
    [south |-> lat - buffer, west |-> lon - buffer,
     north |-> lat + buffer, east |-> lon + buffer]

\* the nested loops push the point of row i, column j at position i*gridSize+j
GridPoints(lat, lon) ==
    LET b == BBox(lat, lon)
    IN  [k \in 1..(gridSize * gridSize) |->
            LET i == (k - 1) \div gridSize
                j == (k - 1) % gridSize
            IN  [lat |-> b.south + (i * (b.north - b.south)) \div (gridSize - 1),
                 lon |-> b.west + (j * (b.east - b.west)) \div (gridSize - 1)]]

(***************************************************************************)
(* Vegetation: the polygons of the OpenStreetMap answer and the            *)
(* point-in-polygon test (ray casting over planar lon/lat pairs).          *)
(***************************************************************************)
\* edge a-b is crossed by the ray going right from p
Crosses(p, a, b) ==
    /\ (a[2] > p[2]) # (b[2] > p[2])
    /\ IF b[2] > a[2]
       THEN (p[1] - a[1]) * (b[2] - a[2]) < (b[1] - a[1]) * (p[2] - a[2])
       ELSE (p[1] - a[1]) * (b[2] - a[2]) > (b[1] - a[1]) * (p[2] - a[2])

pointInPolygon(point, vs) ==
    LET n == Len(vs)
        prev(i) == IF i = 1 THEN n ELSE i - 1
    IN  Cardinality({i \in 1..n : Crosses(point, vs[i], vs[prev(i)])}) % 2 = 1

\* vegetationPolygons.some(polygon => pointInPolygon([point.lon, point.lat], polygon))
hasVegetation(point, vegetationPolygons) ==
    \E p \in 1..Len(vegetationPolygons) :
        pointInPolygon(<<point.lon, point.lat>>, vegetationPolygons[p])

\* osmResponse.data.elements.map(el => el.geometry.map(n => [n.lon, n.lat]))
vegetationPolygonsOf(elements) ==
    [e \in 1..Len(elements) |->
        [n \in 1..Len(elements[e].geometry) |->
            <<elements[e].geometry[n].lon, elements[e].geometry[n].lat>>]]

\* a closed square way of half-side h around (lat, lon)
SquareWay(lat, lon, h) ==
    [geometry |-> << [lat |-> lat - h, lon |-> lon - h],
                     [lat |-> lat - h, lon |-> lon + h],
                     [lat |-> lat + h, lon |-> lon + h],
                     [lat |-> lat + h, lon |-> lon - h],
                     [lat |-> lat - h, lon |-> lon - h] >>]

\* element lists the vegetation source may answer for the box around (lat, lon):
\* nothing, the south-west and north-east corners, the whole box
OsmElements(lat, lon) ==
    LET b == BBox(lat, lon)
    IN  { << >>,
          << SquareWay(b.south, b.west, buffer \div 2),
             SquareWay(b.north, b.east, buffer \div 2) >>,
          << SquareWay(lat, lon, buffer + buffer \div 2) >> }

(***************************************************************************)
(* Temperature answers.                                                    *)
(***************************************************************************)
NominalTemp == Num(220)
\* unusual values of current.temperature_2m: 0 C, 17 C, 40 C
OddTemps == {Num(0), Num(170), Num(400)}

\* answers of one temperature call: kind "ok" carries current.temperature_2m,
\* "malformed" has no current object, "error" is a rejected call (HTTP 429, ...)
TempReply(kind, t) == [kind |-> kind, t |-> t]
OddTempReplies ==
    {TempReply("ok", t) : t \in OddTemps}
        \cup {TempReply("malformed", Undefined), TempReply("error", Undefined)}

(***************************************************************************)
(* Observations (GLOBE).                                                   *)
(***************************************************************************)
Feature(id, lat, lon) ==
    [id |-> id,
     properties |-> [siteName |-> "site", countryName |-> "USA",
                     organizationName |-> "org", elevation |-> 10],
     geometry |-> [coordinates |-> <<lon, lat>>]]

\* feature lists of the observation source: none; two sites next to the
\* north-east grid corner, one a tolerance away from it, one outside the box
GlobeFeatures(lat, lon) ==
    LET b == BBox(lat, lon)
    IN  { << >>,
          << Feature("far", b.north - GlobeEps, b.east),
             Feature("out", b.north + 1, b.east),
             Feature("near1", b.north - 5, b.east - 5),
             Feature("near2", b.north, b.east) >> }

GlobeNull ==
    [id |-> "null", siteName |-> "", countryName |-> "", organizationName |-> "",
     elevation |-> 0, coordinates |-> <<0, 0>>]

Abs(x) == IF x < 0 THEN 0 - x ELSE x

\* features.map(...).filter(inside the box), as fetchGlobeData returns it
globeDataOf(features, b) ==
    SelectSeq([f \in 1..Len(features) |->
                  [id |-> features[f].id,
                   siteName |-> features[f].properties.siteName,
                   countryName |-> features[f].properties.countryName,
                   organizationName |-> features[f].properties.organizationName,
                   elevation |-> features[f].properties.elevation,
                   coordinates |-> features[f].geometry.coordinates]],
              LAMBDA g : /\ g.coordinates[2] >= b.south
                         /\ g.coordinates[2] <= b.north
                         /\ g.coordinates[1] >= b.west
                         /\ g.coordinates[1] <= b.east)

IsNear(g, point) ==
    /\ Abs(g.coordinates[2] - point.lat) < GlobeEps
    /\ Abs(g.coordinates[1] - point.lon) < GlobeEps

\* globeData.find(near the point) || null
globePoint(globeData, point) ==
    LET hits == {g \in 1..Len(globeData) : IsNear(globeData[g], point)}
    IN  IF hits = {} THEN GlobeNull
        ELSE globeData[CHOOSE g \in hits : \A h \in hits : g <= h]

(***************************************************************************)
(* State.                                                                  *)
(***************************************************************************)
VARIABLES
    variant,        \* the server that runs: "basic" (server.js) or "extended"
    scenario,       \* what the clients and the upstream services may do:
                    \* "single" (one request, varied answers) or
                    \* "concurrent" (overlapping requests, plain answers)
    pc,             \* per request: where its handler is suspended
    query,          \* per request: req.query.lat and req.query.lon
    vegetationPolygons, \* per request: the polygons of the vegetation answer
    temperatures,   \* per request: the temperatures array
    timer,          \* per request: ms left of the setTimeout(r, DELAY_MS)
    inflight,       \* the axios calls awaiting their answer
    response,       \* per request: what res sent (status 0: nothing yet)
    \* history, for stating the properties
    calls,          \* per request: the upstream calls issued, in order
    upstream,       \* per request: what each upstream service did
    elapsed,        \* per request, during the pause after a temperature call:
                    \* ms since that call ended
    sinceIssue,     \* ms since the process last issued a temperature call
    month,          \* per request: getMonth() as read while scoring (-1: not read)
    anomaliesLeft,  \* unusual temperature answers the upstream may still give
    scorer          \* inputs and outputs of a direct call of the scorer

vars == <<variant, scenario, pc, query, vegetationPolygons, temperatures, timer, inflight,
          response, calls, upstream, elapsed, sinceIssue, month, anomaliesLeft, scorer>>

Call(r, svc, timeout, point) ==
    [req |-> r, svc |-> svc, timeout |-> timeout, point |-> point]

InFlight(r, svc) == {c \in inflight : c.req = r /\ c.svc = svc}

Lat(r) == parseFloat(query[r].lat).v
Lon(r) == parseFloat(query[r].lon).v
gridPoints(r) == GridPoints(Lat(r), Lon(r))

NoWeather == [kind |-> "none", isArray |-> TRUE, data |-> << >>]
NoUpstream == [osm |-> "none", temp |-> << >>, weather |-> NoWeather, globe |-> "none"]
NoScorer == [called |-> FALSE, temperature |-> Undefined, hasVegetation |-> FALSE,
             latitude |-> 0, currentMonth |-> 0, basic |-> 0, extended |-> 0]

\* what the environment may choose in the current scenario
Varied == scenario = "single"
LatChoices == LatStrings
LonChoices == IF Varied THEN LonStrings ELSE {"-3"}
OsmChoices(lat, lon) ==
    IF Varied THEN OsmElements(lat, lon)
    ELSE {<< SquareWay(lat, lon, buffer + buffer \div 2) >>}
FailureKinds == IF Varied THEN {"malformed", "error"} ELSE {"error"}
TempChoices ==
    {TempReply("ok", NominalTemp)}
        \cup (IF Varied THEN OddTempReplies ELSE {TempReply("error", Undefined)})
GlobeChoices(lat, lon) == IF Varied THEN GlobeFeatures(lat, lon) ELSE {<< >>}
\* months the clock may show while a request is scored
ClockMonths == IF Varied THEN {0, 3, 5} ELSE {5}

InitRequests ==
    /\ pc = [r \in Reqs |-> "idle"]
    /\ query = [r \in Reqs |-> [lat |-> "", lon |-> ""]]
    /\ vegetationPolygons = [r \in Reqs |-> << >>]
    /\ temperatures = [r \in Reqs |-> << >>]
    /\ timer = [r \in Reqs |-> 0]
    /\ inflight = {}
    /\ response = [r \in Reqs |-> [status |-> 0, body |-> << >>]]
    /\ calls = [r \in Reqs |-> << >>]
    /\ upstream = [r \in Reqs |-> NoUpstream]
    /\ elapsed = [r \in Reqs |-> 0]
    /\ sinceIssue = DELAY_MS
    /\ month = [r \in Reqs |-> -1]

\* one server, basic or extended, about to receive a request
Init ==
    /\ variant \in {"basic", "extended"}
    /\ scenario = "single"
    /\ InitRequests
    /\ anomaliesLeft = MaxAnomalies
    /\ scorer = NoScorer

(***************************************************************************)
(* Sending the response.                                                   *)
(***************************************************************************)
Send(r, status, body) ==
    /\ response' = [response EXCEPT ![r] = [status |-> status, body |-> body]]
    /\ pc' = [pc EXCEPT ![r] = "done"]

\* the catch block of the extended handler: always 500
ExtCatch(r, err) == Send(r, 500, << >>)

\* the catch block of the basic handler: 504 on ECONNABORTED, else 500
BasicCatch(r, err) ==
    IF err.code = "ECONNABORTED" THEN Send(r, 504, << >>) ELSE Send(r, 500, << >>)

\* the errors axios and the handler's own code throw
TimeoutError == [code |-> "ECONNABORTED"]
HttpError == [code |-> "ERR_BAD_RESPONSE"]
TypeError == [code |-> "undefined"]

(***************************************************************************)
(* Extended server, src/unnamed/part_000.                                  *)
(***************************************************************************)
\* request received: parse, validate, ask for the vegetation of the box
ExtArrive(r) ==
    /\ variant = "extended"
    /\ pc[r] = "idle"
    /\ \E qlat \in LatChoices, qlon \in LonChoices :
          /\ query' = [query EXCEPT ![r] = [lat |-> qlat, lon |-> qlon]]
          /\ IF isNaN(parseFloat(qlat)) \/ isNaN(parseFloat(qlon))
             THEN /\ Send(r, 400, << >>)
                  /\ UNCHANGED <<inflight, calls>>
             ELSE /\ inflight' = inflight \cup {Call(r, "osm", OsmTimeout, 0)}
                  /\ calls' = [calls EXCEPT ![r] = Append(@, [svc |-> "osm", point |-> 0])]
                  /\ pc' = [pc EXCEPT ![r] = "osm"]
                  /\ UNCHANGED response
    /\ UNCHANGED <<variant, scenario, sinceIssue,
                   vegetationPolygons, temperatures, timer, upstream,
                   elapsed, month, anomaliesLeft, scorer>>

\* the temperature call of grid point k is issued
IssueTemp(r, k) ==
    /\ inflight' = (inflight \ InFlight(r, "osm")) \cup {Call(r, "temp", TempTimeout, k)}
    /\ calls' = [calls EXCEPT ![r] = Append(@, [svc |-> "temp", point |-> k])]
    /\ sinceIssue' = 0

\* the vegetation answer arrives: polygons, grid, first temperature call
ExtOsmReply(r) ==
    /\ variant = "extended"
    /\ pc[r] = "osm"
    /\ InFlight(r, "osm") # {}
    /\ \E kind \in {"ok"} \cup FailureKinds :
       \E elements \in OsmChoices(Lat(r), Lon(r)) :
          /\ upstream' = [upstream EXCEPT ![r].osm = kind]
          /\ IF kind = "ok"
             THEN /\ vegetationPolygons' =
                        [vegetationPolygons EXCEPT ![r] = vegetationPolygonsOf(elements)]
                  /\ temperatures' = [temperatures EXCEPT ![r] = << >>]
                  /\ IssueTemp(r, 1)
                  /\ pc' = [pc EXCEPT ![r] = "temp"]
                  /\ UNCHANGED response
             ELSE /\ elements = CHOOSE e \in OsmChoices(Lat(r), Lon(r)) : TRUE
                  /\ ExtCatch(r, IF kind = "error" THEN HttpError ELSE TypeError)
                  /\ inflight' = inflight \ InFlight(r, "osm")
                  /\ UNCHANGED <<vegetationPolygons, temperatures, calls, sinceIssue>>
    /\ UNCHANGED <<variant, scenario, query, timer, elapsed, month, anomaliesLeft, scorer>>

\* the vegetation call exceeds its timeout
ExtOsmTimeout(r) ==
    /\ variant = "extended"
    /\ pc[r] = "osm"
    /\ \E c \in InFlight(r, "osm") : c.timeout > 0
    /\ upstream' = [upstream EXCEPT ![r].osm = "timeout"]
    /\ ExtCatch(r, TimeoutError)
    /\ inflight' = inflight \ InFlight(r, "osm")
    /\ UNCHANGED <<variant, scenario, sinceIssue,
                   query, vegetationPolygons, temperatures, timer, calls,
                   elapsed, month, anomaliesLeft, scorer>>

\* after a temperature call ended: push the value, start the pause
PushAndPause(r, value) ==
    /\ temperatures' = [temperatures EXCEPT ![r] = Append(@, value)]
    /\ timer' = [timer EXCEPT ![r] = DELAY_MS]
    /\ pc' = [pc EXCEPT ![r] = "delay"]

\* mutant of TempPushed: a body without a current object is read like any other
TempPushed_unreadable(reply) ==
    IF reply.kind # "error" THEN reply.t ELSE Num(FallbackTemp)

\* the value pushed for an answer: the temperature, or the fallback when the
\* call was rejected or its body has no current object
TempPushed(reply) ==
    IF reply.kind = "ok" THEN reply.t ELSE Num(FallbackTemp)

\* a temperature call is answered (or rejected)
ExtTempReply(r) ==
    /\ variant = "extended"
    /\ pc[r] = "temp"
    /\ InFlight(r, "temp") # {}
    /\ \E reply \in TempChoices :
          /\ reply # TempReply("ok", NominalTemp) => anomaliesLeft > 0
          /\ anomaliesLeft' = IF reply = TempReply("ok", NominalTemp)
                              THEN anomaliesLeft ELSE anomaliesLeft - 1
          /\ upstream' = [upstream EXCEPT ![r].temp = Append(@, reply)]
          /\ PushAndPause(r, TempPushed(reply))
    /\ inflight' = inflight \ InFlight(r, "temp")
    /\ elapsed' = [elapsed EXCEPT ![r] = 0]
    /\ UNCHANGED <<variant, scenario, sinceIssue,
                   query, vegetationPolygons, response, calls, month, scorer>>

\* a temperature call exceeds its timeout
ExtTempTimeout(r) ==
    /\ variant = "extended"
    /\ pc[r] = "temp"
    /\ \E c \in InFlight(r, "temp") : c.timeout > 0
    /\ anomaliesLeft > 0
    /\ anomaliesLeft' = anomaliesLeft - 1
    /\ upstream' = [upstream EXCEPT ![r].temp = Append(@, TempReply("timeout", Undefined))]
    /\ PushAndPause(r, Num(FallbackTemp))
    /\ inflight' = inflight \ InFlight(r, "temp")
    /\ elapsed' = [elapsed EXCEPT ![r] = 0]
    /\ UNCHANGED <<variant, scenario, sinceIssue,
                   query, vegetationPolygons, response, calls, month, scorer>>

\* time passes
TickClock ==
    /\ \E r \in Reqs : pc[r] \notin {"idle", "done"}
    /\ timer' = [r \in Reqs |-> IF timer[r] > Tick THEN timer[r] - Tick ELSE 0]
    /\ sinceIssue' = IF sinceIssue + Tick < DELAY_MS THEN sinceIssue + Tick ELSE DELAY_MS
    /\ elapsed' = [r \in Reqs |->
                      IF pc[r] = "delay"
                      THEN (IF elapsed[r] + Tick < DELAY_MS THEN elapsed[r] + Tick ELSE DELAY_MS)
                      ELSE elapsed[r]]
    /\ UNCHANGED <<variant, scenario, pc, query, vegetationPolygons, temperatures, inflight,
                   response, calls, upstream, month, anomaliesLeft, scorer>>

\* mutant of DelayElapsed: the pause ends one clock step early
DelayElapsed_early(r) == timer[r] <= Tick

\* the setTimeout of the pause has fired
DelayElapsed(r) == timer[r] = 0

\* the pause is over: next point's call, or, after the last point, the
\* observation call of fetchGlobeData
ExtDelayDone(r) ==
    /\ variant = "extended"
    /\ pc[r] = "delay"
    /\ DelayElapsed(r)
    /\ IF Len(temperatures[r]) < Len(gridPoints(r))
       THEN /\ IssueTemp(r, Len(temperatures[r]) + 1)
            /\ pc' = [pc EXCEPT ![r] = "temp"]
       ELSE /\ inflight' = inflight \cup {Call(r, "globe", GlobeTimeout, 0)}
            /\ calls' = [calls EXCEPT ![r] = Append(@, [svc |-> "globe", point |-> 0])]
            /\ pc' = [pc EXCEPT ![r] = "globe"]
            /\ UNCHANGED sinceIssue
    /\ UNCHANGED <<variant, scenario, query, vegetationPolygons, temperatures, timer, response,
                   upstream, elapsed, month, anomaliesLeft, scorer>>

\* array[k] of JavaScript: undefined past the end
At(array, k) == IF k >= 1 /\ k <= Len(array) THEN array[k] ELSE Undefined

\* temperatures[index] || 25
ExtTemperature(temps, k) ==
    IF Truthy(At(temps, k)) THEN At(temps, k) ELSE Num(FallbackTemp)

ExtBeeScore(point, temps, k, m) ==
    calcularPontuacaoAbelhaExt(ExtTemperature(temps, k), TRUE, point.lat, m)

\* mutant of ExtKept: points outside the vegetation are not skipped
ExtKept_all(points, polygons, temps, k, m) ==
    ~(ExtBeeScore(points[k], temps, k, m) < 500)

\* the map callback returns an object, not null, for grid point k
ExtKept(points, polygons, temps, k, m) ==
    /\ hasVegetation(points[k], polygons)
    /\ ~(ExtBeeScore(points[k], temps, k, m) < 500)

ExtEntry(points, temps, globeData, k, m) ==
    [latitude |-> points[k].lat,
     longitude |-> points[k].lon,
     weight |-> ToFixed3(ExtBeeScore(points[k], temps, k, m)),
     temperature |-> ExtTemperature(temps, k),
     globe |-> globePoint(globeData, points[k])]

\* gridPoints.map(...).filter(Boolean)
ExtResult(points, polygons, temps, globeData, m) ==
    LET kept == SelectSeq([k \in 1..Len(points) |-> k],
                          LAMBDA k : ExtKept(points, polygons, temps, k, m))
    IN  [n \in 1..Len(kept) |-> ExtEntry(points, temps, globeData, kept[n], m)]

\* with the observations in hand the handler scores, filters and answers 200
ExtRespond(r, globeData) ==
    \E m \in ClockMonths :
        /\ month' = [month EXCEPT ![r] = m]
        /\ Send(r, 200, ExtResult(gridPoints(r), vegetationPolygons[r],
                                  temperatures[r], globeData, m))

\* the observation call is answered: fetchGlobeData returns the sites of the
\* box, or [] when the call was rejected or a feature cannot be read
ExtGlobeReply(r) ==
    /\ variant = "extended"
    /\ pc[r] = "globe"
    /\ InFlight(r, "globe") # {}
    /\ \E kind \in {"ok"} \cup FailureKinds :
       \E features \in GlobeChoices(Lat(r), Lon(r)) :
          /\ kind # "ok" => features = << >>
          /\ upstream' = [upstream EXCEPT ![r].globe = kind]
          /\ ExtRespond(r, IF kind = "ok"
                           THEN globeDataOf(features, BBox(Lat(r), Lon(r)))
                           ELSE << >>)
    /\ inflight' = inflight \ InFlight(r, "globe")
    /\ UNCHANGED <<variant, scenario, sinceIssue,
                   query, vegetationPolygons, temperatures, timer, calls,
                   elapsed, anomaliesLeft, scorer>>

\* mutant of ExtGlobeTimeout: fetchGlobeData lets the rejection through to the
\* handler's catch block
ExtGlobeTimeout_thrown(r) ==
    /\ variant = "extended"
    /\ pc[r] = "globe"
    /\ \E c \in InFlight(r, "globe") : c.timeout > 0
    /\ upstream' = [upstream EXCEPT ![r].globe = "timeout"]
    /\ ExtCatch(r, TimeoutError)
    /\ inflight' = inflight \ InFlight(r, "globe")
    /\ UNCHANGED <<variant, scenario, sinceIssue, query, vegetationPolygons, temperatures,
                   timer, calls, elapsed, month, anomaliesLeft, scorer>>

\* the observation call exceeds its timeout: fetchGlobeData returns []
ExtGlobeTimeout(r) ==
    /\ variant = "extended"
    /\ pc[r] = "globe"
    /\ \E c \in InFlight(r, "globe") : c.timeout > 0
    /\ upstream' = [upstream EXCEPT ![r].globe = "timeout"]
    /\ ExtRespond(r, << >>)
    /\ inflight' = inflight \ InFlight(r, "globe")
    /\ UNCHANGED <<variant, scenario, sinceIssue,
                   query, vegetationPolygons, temperatures, timer, calls,
                   elapsed, anomaliesLeft, scorer>>

(***************************************************************************)
(* Basic server, src/server.js.                                            *)
(***************************************************************************)
\* request received: parse, validate, ask for the vegetation of the box
BasicArrive(r) ==
    /\ variant = "basic"
    /\ pc[r] = "idle"
    /\ \E qlat \in LatChoices, qlon \in LonChoices :
          /\ query' = [query EXCEPT ![r] = [lat |-> qlat, lon |-> qlon]]
          /\ IF isNaN(parseFloat(qlat)) \/ isNaN(parseFloat(qlon))
             THEN /\ Send(r, 400, << >>)
                  /\ UNCHANGED <<inflight, calls>>
             ELSE /\ inflight' = inflight \cup {Call(r, "osm", OsmTimeout, 0)}
                  /\ calls' = [calls EXCEPT ![r] = Append(@, [svc |-> "osm", point |-> 0])]
                  /\ pc' = [pc EXCEPT ![r] = "osm"]
                  /\ UNCHANGED response
    /\ UNCHANGED <<variant, scenario, sinceIssue,
                   vegetationPolygons, temperatures, timer, upstream,
                   elapsed, month, anomaliesLeft, scorer>>

\* the vegetation answer arrives: polygons, grid, the batched temperature
\* call, which sets no timeout
BasicOsmReply(r) ==
    /\ variant = "basic"
    /\ pc[r] = "osm"
    /\ InFlight(r, "osm") # {}
    /\ \E kind \in {"ok"} \cup FailureKinds :
       \E elements \in OsmChoices(Lat(r), Lon(r)) :
          /\ upstream' = [upstream EXCEPT ![r].osm = kind]
          /\ IF kind = "ok"
             THEN /\ vegetationPolygons' =
                        [vegetationPolygons EXCEPT ![r] = vegetationPolygonsOf(elements)]
                  /\ inflight' = (inflight \ InFlight(r, "osm"))
                                    \cup {Call(r, "weather", 0, 0)}
                  /\ calls' = [calls EXCEPT ![r] = Append(@, [svc |-> "weather", point |-> 0])]
                  /\ pc' = [pc EXCEPT ![r] = "weather"]
                  /\ UNCHANGED response
             ELSE /\ elements = CHOOSE e \in OsmChoices(Lat(r), Lon(r)) : TRUE
                  /\ BasicCatch(r, IF kind = "error" THEN HttpError ELSE TypeError)
                  /\ inflight' = inflight \ InFlight(r, "osm")
                  /\ UNCHANGED <<vegetationPolygons, calls>>
    /\ UNCHANGED <<variant, scenario, sinceIssue,
                   query, temperatures, timer, elapsed, month,
                   anomaliesLeft, scorer>>

\* a call that set a timeout exceeds it: axios rejects with ECONNABORTED
BasicTimeout(r) ==
    /\ variant = "basic"
    /\ \E c \in inflight :
          /\ c.req = r
          /\ c.timeout > 0
          /\ upstream' = IF c.svc = "osm"
                         THEN [upstream EXCEPT ![r].osm = "timeout"]
                         ELSE [upstream EXCEPT ![r].weather.kind = "timeout"]
          /\ inflight' = inflight \ {c}
    /\ BasicCatch(r, TimeoutError)
    /\ UNCHANGED <<variant, scenario, sinceIssue,
                   query, vegetationPolygons, temperatures, timer, calls,
                   elapsed, month, anomaliesLeft, scorer>>

\* bodies of the batched temperature answer for n submitted points
WeatherEntry(t) == [hasCurrent |-> TRUE, t |-> t]
NoCurrentEntry == [hasCurrent |-> FALSE, t |-> Undefined]
OddEntries == {WeatherEntry(t) : t \in OddTemps} \cup {NoCurrentEntry}

\* the data of the answer: an array (one short, aligned or one long, with up
\* to MaxAnomalies unusual items) or a single object
WeatherBodies(n) ==
    { [kind |-> "body", isArray |-> TRUE,
       data |-> [i \in 1..len |-> IF i \in A THEN odd ELSE WeatherEntry(NominalTemp)]] :
         len \in {n - 1, n, n + 1},
         A \in {S \in SUBSET (1..(n + 1)) : Cardinality(S) <= MaxAnomalies},
         odd \in OddEntries }
    \cup { [kind |-> "body", isArray |-> FALSE, data |-> WeatherEntry(NominalTemp)] }

\* Array.isArray(data) ? data : [data]
temperaturesDataOf(body) == IF body.isArray THEN body.data ELSE <<body.data>>

BasicEntry(points, polygons, temps, k, m) ==
    [latitude |-> points[k].lat,
     longitude |-> points[k].lon,
     weight |-> calcularPontuacaoAbelha(At(temps, k),
                                        hasVegetation(points[k], polygons),
                                        points[k].lat, m)]

\* gridPoints.map(...)
heatmapData(points, polygons, temps, m) ==
    [k \in 1..Len(points) |-> BasicEntry(points, polygons, temps, k, m)]

\* the batched temperature answer arrives: score every grid point, answer 200
BasicWeatherReply(r) ==
    /\ variant = "basic"
    /\ pc[r] = "weather"
    /\ InFlight(r, "weather") # {}
    /\ \E body \in WeatherBodies(Len(gridPoints(r)))
                     \cup {[kind |-> "error", isArray |-> TRUE, data |-> << >>]} :
          /\ upstream' = [upstream EXCEPT ![r].weather = body]
          /\ IF body.kind = "error"
             THEN /\ BasicCatch(r, HttpError)
                  /\ UNCHANGED <<temperatures, month>>
             ELSE LET data == temperaturesDataOf(body)
                  IN  IF \E i \in 1..Len(data) : ~data[i].hasCurrent
                      THEN /\ BasicCatch(r, TypeError)
                           /\ UNCHANGED <<temperatures, month>>
                      ELSE \E m \in ClockMonths :
                              /\ temperatures' = [temperatures EXCEPT ![r] =
                                                    [i \in 1..Len(data) |-> data[i].t]]
                              /\ month' = [month EXCEPT ![r] = m]
                              /\ Send(r, 200, heatmapData(gridPoints(r), vegetationPolygons[r],
                                                          temperatures'[r], m))
    /\ inflight' = inflight \ InFlight(r, "weather")
    /\ UNCHANGED <<variant, scenario, sinceIssue,
                   query, vegetationPolygons, timer, calls, elapsed,
                   anomaliesLeft, scorer>>

(***************************************************************************)
(* A direct call of the scorer of both servers on the same arguments.      *)
(***************************************************************************)
Months == 0..11
ScoreTemps ==
    {Null, Undefined}
        \cup {Num(t) : t \in {-50, 0, 150, 151, 199, 200, 250, 320, 321, 379, 380, 450}}
ScoreLats == {-100000, -1, 0, 1, 100000}

ScoreCall ==
    /\ ~scorer.called
    /\ scorer' = [scorer EXCEPT
           !.called = TRUE,
           !.basic = calcularPontuacaoAbelha(scorer.temperature, scorer.hasVegetation,
                                             scorer.latitude, scorer.currentMonth),
           !.extended = calcularPontuacaoAbelhaExt(scorer.temperature, scorer.hasVegetation,
                                                   scorer.latitude, scorer.currentMonth)]
    /\ UNCHANGED <<variant, scenario, sinceIssue,
                   pc, query, vegetationPolygons, temperatures, timer, inflight,
                   response, calls, upstream, elapsed, sinceIssue, month, anomaliesLeft>>

(***************************************************************************)
(* Specifications.                                                         *)
(***************************************************************************)
\* one request handled by one server, basic or extended
Next ==
    \/ BasicArrive(1)
    \/ BasicOsmReply(1)
    \/ BasicTimeout(1)
    \/ BasicWeatherReply(1)
    \/ ExtArrive(1)
    \/ ExtOsmReply(1)
    \/ ExtOsmTimeout(1)
    \/ ExtTempReply(1)
    \/ ExtTempTimeout(1)
    \/ TickClock
    \/ ExtDelayDone(1)
    \/ ExtGlobeReply(1)
    \/ ExtGlobeTimeout(1)

Spec == Init /\ [][Next]_vars

\* the extended server handling several requests at once
InitConc ==
    /\ variant = "extended"
    /\ scenario = "concurrent"
    /\ InitRequests
    /\ anomaliesLeft = 1
    /\ scorer = NoScorer

NextConc ==
    \/ \E r \in Reqs : ExtArrive(r)
    \/ \E r \in Reqs : ExtOsmReply(r)
    \/ \E r \in Reqs : ExtOsmTimeout(r)
    \/ \E r \in Reqs : ExtTempReply(r)
    \/ \E r \in Reqs : ExtTempTimeout(r)
    \/ TickClock
    \/ \E r \in Reqs : ExtDelayDone(r)
    \/ \E r \in Reqs : ExtGlobeReply(r)
    \/ \E r \in Reqs : ExtGlobeTimeout(r)

ConcSpec == InitConc /\ [][NextConc]_vars

\* the scorer called on its own
InitScore ==
    /\ variant = "basic"
    /\ scenario = "single"
    /\ InitRequests
    /\ anomaliesLeft = 0
    /\ scorer \in [called : {FALSE}, temperature : ScoreTemps, hasVegetation : BOOLEAN,
                   latitude : ScoreLats, currentMonth : Months,
                   basic : {0}, extended : {0}]

NextScore == ScoreCall

ScoreSpec == InitScore /\ [][NextScore]_vars

(***************************************************************************)
(* Properties.                                                             *)
(***************************************************************************)
Failed(outcome) == outcome \in {"malformed", "error", "timeout"}
IsPeak(latitude, m) ==
    IF latitude > 0 THEN m \in 2..7 ELSE m \in {8, 9, 10, 11, 0, 1}
TempCalls(r) == SelectSeq(calls[r], LAMBDA c : c.svc = "temp")
AllTempInFlight == {c \in inflight : c.svc = "temp"}
\* request r issues the temperature call of a point in this step
IssuesTemp(r) ==
    /\ Len(calls'[r]) = Len(calls[r]) + 1
    /\ calls'[r][Len(calls'[r])].svc = "temp"
NextPoint(r) == calls'[r][Len(calls'[r])].point
\* the grid index of a returned point
IndexIn(pts, e) ==
    CHOOSE k \in 1..Len(pts) : pts[k].lat = e.latitude /\ pts[k].lon = e.longitude
GridIndexOf(r, e) == IndexIn(gridPoints(r), e)
IsGridPoint(pts, e) ==
    \E k \in 1..Len(pts) : pts[k].lat = e.latitude /\ pts[k].lon = e.longitude

\* C1: in the extended server's temperature loop the temperatures array always
\* has one entry per call that ended, in grid order: the fallback 25 where the
\* call failed (rejected, unreadable body, timeout) and the upstream's value
\* elsewhere; once the vegetation was fetched no failed temperature call
\* aborts the request: it ends with status 200 after every grid point was
\* visited.
C1_FallbackPerPoint ==
    variant = "extended" =>
        \A r \in Reqs :
            /\ Len(temperatures[r]) = Len(upstream[r].temp)
            /\ \A i \in 1..Len(temperatures[r]) :
                  temperatures[r][i] =
                      IF upstream[r].temp[i].kind = "ok"
                      THEN upstream[r].temp[i].t
                      ELSE Num(FallbackTemp)
            /\ (upstream[r].osm = "ok" /\ pc[r] = "done") =>
                  /\ response[r].status = 200
                  /\ Len(temperatures[r]) = gridSize * gridSize
                  /\ \A k \in 1..(gridSize * gridSize) : TempCalls(r)[k].point = k

\* C1 happens: the call of point 3 alone failed and the request ended with 200
C1_Witness ==
    /\ variant = "extended"
    /\ pc[1] = "done"
    /\ response[1].status = 200
    /\ Len(upstream[1].temp) = gridSize * gridSize
    /\ \A i \in 1..Len(upstream[1].temp) :
          (upstream[1].temp[i].kind = "error") <=> (i = 3)
    /\ temperatures[1][3] = Num(FallbackTemp)
    /\ temperatures[1][1] = NominalTemp

\* C2: within one request of the extended server at most one temperature call
\* is in flight, the n-th call is for the n-th grid point and the grid is in
\* row-major order (rows by latitude, columns by longitude: each point is
\* lexicographically after its predecessor); the call of
\* point k+1 is issued only when the call of point k has ended and
\* DELAY_MS have passed since.
C2_Serialized ==
    /\ [](variant = "extended" =>
            \A r \in Reqs :
                /\ Cardinality(InFlight(r, "temp")) <= 1
                /\ \A n \in 1..Len(TempCalls(r)) : TempCalls(r)[n].point = n
                /\ \A c \in InFlight(r, "temp") : c.point = Len(temperatures[r]) + 1
                /\ pc[r] \in {"temp", "delay", "globe"} =>
                      LET pts == gridPoints(r)
                      IN  \A k \in 1..(Len(pts) - 1) :
                             \/ pts[k].lat < pts[k + 1].lat
                             \/ /\ pts[k].lat = pts[k + 1].lat
                                /\ pts[k].lon < pts[k + 1].lon)
    /\ [][\A r \in Reqs :
            IssuesTemp(r) =>
                /\ InFlight(r, "temp") = {}
                /\ NextPoint(r) = Len(temperatures[r]) + 1
                /\ NextPoint(r) > 1 => (pc[r] = "delay" /\ elapsed[r] >= DELAY_MS)]_vars

\* C2 happens: the call of the second point is in flight, a full pause after
\* the first call ended
C2_Witness ==
    /\ variant = "extended"
    /\ \E c \in InFlight(1, "temp") : c.point = 2
    /\ Len(temperatures[1]) = 1
    /\ elapsed[1] = DELAY_MS

\* C3: every external call of either server sets a timeout (so that a stalled
\* upstream cannot keep the handler from answering).
C3_AllCallsTimed == \A c \in inflight : c.timeout > 0

\* C4: when the batched temperature answer of the basic server is misaligned
\* with the grid (fewer or more entries than grid points, or an entry without
\* a temperature), the request ends in an error, not in a heatmap.
C4_MisalignedBatchFails ==
    variant = "basic" =>
        \A r \in Reqs :
            LET body == upstream[r].weather
                data == temperaturesDataOf(body)
            IN  (/\ pc[r] = "done"
                 /\ body.kind = "body"
                 /\ \/ Len(data) # gridSize * gridSize
                    \/ \E i \in 1..Len(data) : ~data[i].hasCurrent \/ data[i].t.kind # "num")
                => response[r].status \notin {0, 200}

\* C5: a successful basic request returns one point per grid point, in grid
\* order; a successful extended request returns grid points in grid order
\* (strictly increasing grid index, so without repetition), each inside a
\* vegetation polygon and with weight at least 0.05, and it drops no grid
\* point that is inside a polygon and whose temperature scores at least 0.05.
C5_FilterPolicy ==
    \A r \in Reqs :
        response[r].status = 200 =>
            LET body == response[r].body
                pts == gridPoints(r)
            IN  IF variant = "basic"
                THEN /\ Len(body) = gridSize * gridSize
                     /\ \A k \in 1..Len(body) :
                           /\ body[k].latitude = pts[k].lat
                           /\ body[k].longitude = pts[k].lon
                ELSE /\ \A n \in 1..Len(body) :
                           /\ IsGridPoint(pts, body[n])
                           /\ hasVegetation(pts[IndexIn(pts, body[n])], vegetationPolygons[r])
                           /\ body[n].weight >= 500
                     /\ \A n \in 1..(Len(body) - 1) :
                           IndexIn(pts, body[n]) < IndexIn(pts, body[n + 1])
                     /\ \A k \in 1..Len(pts) :
                           (/\ hasVegetation(pts[k], vegetationPolygons[r])
                            /\ calcularPontuacaoAbelhaExt(temperatures[r][k], TRUE,
                                                          pts[k].lat, month[r]) >= 500)
                           => \E n \in 1..Len(body) :
                                 /\ body[n].latitude = pts[k].lat
                                 /\ body[n].longitude = pts[k].lon

\* C5 happens: an extended request returned some points, dropped a point
\* outside the vegetation and dropped a vegetated point for its score
C5_Witness ==
    /\ variant = "extended"
    /\ response[1].status = 200
    /\ Len(response[1].body) > 0
    /\ \E k \in 1..Len(gridPoints(1)) :
          ~hasVegetation(gridPoints(1)[k], vegetationPolygons[1])
    /\ \E k \in 1..Len(gridPoints(1)) :
          /\ hasVegetation(gridPoints(1)[k], vegetationPolygons[1])
          /\ \A n \in 1..Len(response[1].body) : GridIndexOf(1, response[1].body[n]) # k

\* the scorer as the factor tables give it: an absent temperature scores 0,
\* otherwise the product of the vegetation factor (in hundredths), the
\* temperature factor (in tenths) and the seasonality factor (in tenths)
ExpectedScore(temperature, hasVeg, latitude, m) ==
    IF temperature.kind # "num" THEN 0
    ELSE LET vegetationFactor == IF hasVeg THEN 100 ELSE 5
             temperatureFactor ==
                 IF temperature.v \in 200..320 THEN 10
                 ELSE IF temperature.v \in 151..379 THEN 5
                 ELSE 0
             seasonalityFactor ==
                 IF latitude > 0
                 THEN (IF m \in 2..7 THEN 10 ELSE IF m \in 8..9 THEN 5 ELSE 1)
                 ELSE (IF m \in {8, 9, 10, 11, 0, 1} THEN 10
                       ELSE IF m \in 2..3 THEN 5 ELSE 1)
         IN  vegetationFactor * temperatureFactor * seasonalityFactor

\* C6: for every temperature (absent or a number), vegetation flag, latitude
\* and month, the scorers of both servers return the same weight, the one the
\* factor tables give: 0 for an absent temperature, a value in [0,1], exactly
\* 1.0 for a vegetated point at 20..32 C in a peak month, at most 0.05 without
\* vegetation.
C6_ScorerTable ==
    scorer.called =>
        /\ scorer.basic = scorer.extended
        /\ scorer.basic = ExpectedScore(scorer.temperature, scorer.hasVegetation,
                                        scorer.latitude, scorer.currentMonth)
        /\ scorer.basic >= 0 /\ scorer.basic <= 10000
        /\ scorer.temperature.kind # "num" => scorer.basic = 0
        /\ ~scorer.hasVegetation => scorer.basic <= 500
        /\ (/\ scorer.hasVegetation
            /\ scorer.temperature.kind = "num"
            /\ scorer.temperature.v >= 200 /\ scorer.temperature.v <= 320
            /\ IsPeak(scorer.latitude, scorer.currentMonth)) => scorer.basic = 10000

\* C6 happens: on the equator (Southern table) in October a vegetated point
\* at 32 C scores exactly 1.0
C6_Witness ==
    /\ scorer.called
    /\ scorer.latitude = 0
    /\ scorer.currentMonth = 9
    /\ scorer.hasVegetation
    /\ scorer.temperature = Num(320)
    /\ scorer.basic = 10000
    /\ scorer.extended = 10000

\* C7: in the extended server a failed or timed-out observation fetch never
\* fails the request: it ends with 200 and no point carries an observation;
\* a failed or timed-out vegetation fetch ends the request with an error and
\* no temperature or observation call is ever issued for it; a failed
\* temperature call leaves the request running (or finished with 200).
C7_Degradation ==
    variant = "extended" =>
        \A r \in Reqs :
            /\ Failed(upstream[r].globe) =>
                  /\ response[r].status = 200
                  /\ \A n \in 1..Len(response[r].body) : response[r].body[n].globe = GlobeNull
            /\ Failed(upstream[r].osm) =>
                  /\ response[r].status >= 500
                  /\ calls[r] = <<[svc |-> "osm", point |-> 0]>>
                  /\ {c \in inflight : c.req = r} = {}
                  /\ temperatures[r] = << >>
            /\ (\E i \in 1..Len(upstream[r].temp) : upstream[r].temp[i].kind # "ok") =>
                  /\ pc[r] \in {"delay", "temp", "globe", "done"}
                  /\ response[r].status \in {0, 200}
                  /\ pc[r] = "done" <=> response[r].status = 200

\* C7 happens: the observation call timed out and the request still returned
\* points, none with an observation
C7_Witness ==
    /\ variant = "extended"
    /\ upstream[1].globe = "timeout"
    /\ response[1].status = 200
    /\ Len(response[1].body) > 0

\* C8: in both servers an unparseable lat or lon gets 400 and no upstream
\* call; a request failed by an upstream timeout gets 504; a request failed
\* by another upstream failure gets 500.
C8_ErrorSurface ==
    \A r \in Reqs :
        pc[r] = "done" =>
            /\ (isNaN(parseFloat(query[r].lat)) \/ isNaN(parseFloat(query[r].lon)))
                  <=> response[r].status = 400
            /\ response[r].status = 400 => calls[r] = << >>
            /\ upstream[r].osm = "timeout" => response[r].status = 504
            /\ upstream[r].osm \in {"malformed", "error"} => response[r].status = 500
            /\ upstream[r].weather.kind = "error" => response[r].status = 500

\* C9: in the extended server every returned point whose temperature call
\* succeeded with a number t reports temperature t and the weight of t.
C9_FetchedTemperatureUsed ==
    variant = "extended" =>
        \A r \in Reqs :
            response[r].status = 200 =>
                \A n \in 1..Len(response[r].body) :
                    LET e == response[r].body[n]
                        k == GridIndexOf(r, e)
                        reply == upstream[r].temp[k]
                    IN  (reply.kind = "ok" /\ reply.t.kind = "num") =>
                            /\ e.temperature = reply.t
                            /\ e.weight = ToFixed3(calcularPontuacaoAbelhaExt(
                                              reply.t, TRUE, e.latitude, month[r]))

\* C10 as stated: across all requests of the process at most one temperature
\* call is in flight, and a temperature call is issued only DELAY_MS or more
\* after the process issued the previous one.
C10_ProcessWideRate ==
    /\ [](Cardinality(AllTempInFlight) <= 1)
    /\ [][(\E r \in Reqs : IssuesTemp(r)) =>
             (AllTempInFlight = {} /\ sinceIssue >= DELAY_MS)]_vars

\* C10 amended: with requests handled at once, each request has at most one
\* temperature call in flight, so the process has at most as many in flight
\* as it has requests in their temperature loop, and a request issues the
\* call of its next point only DELAY_MS or more after its previous call ended.
C10_PerRequestRate ==
    /\ [](/\ \A r \in Reqs : Cardinality(InFlight(r, "temp")) = (IF pc[r] = "temp" THEN 1 ELSE 0)
          /\ Cardinality(AllTempInFlight) = Cardinality({r \in Reqs : pc[r] = "temp"}))
    /\ [][\A r \in Reqs :
            (IssuesTemp(r) /\ NextPoint(r) > 1) => elapsed[r] >= DELAY_MS]_vars

\* C10 happens: two requests have a temperature call in flight at once
C10_Witness ==
    /\ Cardinality(AllTempInFlight) = 2
    /\ \E c \in AllTempInFlight : c.point > 1

=============================================================================
